---- MODULE Spec2Model ----
(***************************************************************************)
(* The GPS data generation notebook as a state machine.  Every code cell   *)
(* of the notebook is one step; the cells that loop over sampled points    *)
(* take one step per loop iteration.  An exception raised by a cell stops  *)
(* the run (pc = "error"): the later cells are not executed.               *)
(*                                                                         *)
(* Coordinates are integers: one unit is half a mile along a meridian.     *)
(* The sampling grid (round(x, 6) in the notebook) is every Prec-th unit.  *)
(* A proportion is kept as the pair [num, den] of the two counts that the  *)
(* code divides; the float the code stores is Float(num, den) below.       *)
(***************************************************************************)
EXTENDS Integers, Sequences, FiniteSets, TLC

VARIABLES pc, yelp, seattle_rent, gps_dict, gps_df, i_loop, calls, test_out,
          output, error

vars == <<pc, yelp, seattle_rent, gps_dict, gps_df, i_loop, calls, test_out,
          output, error>>

-----------------------------------------------------------------------------
(* Bounds of the model *)

YelpSizes == 1..2

HoodCounts == 0..2

NumSamples == 2

Prec == 3

MaxGroup == 6

LatValues == {0, 2, 5, 7}

LonValues == {0}

PriceValues == 0..4

HoodNames == {"Ballard", "Interbay"}

-----------------------------------------------------------------------------
(* Program constants *)

NotFound == "Not Found"

Tiers == 1..4

TierList == <<1, 2, 3, 4>>

Radii == <<1, 2>>

house2 == <<0, 0>>

NotWritten == [written |-> FALSE]

NoError == "none"

Zero == [num |-> 0, den |-> 1]

NaN == [num |-> 0, den |-> 0]

-----------------------------------------------------------------------------
(* Column names *)

RadiusStr(radius) ==
    ToString(radius \div 2) \o (IF radius % 2 = 0 THEN ".0" ELSE ".5")

TierCol(radius, dollar) ==
    RadiusStr(radius) \o "mi " \o ToString(dollar) \o " dollar"

HoodTierCol(dollar) == ToString(dollar) \o " dollar"

-----------------------------------------------------------------------------
(* Helpers on tables: a table is a sequence of rows, a row a record *)

(* mutant: the selected row numbers come last first *)
SelectIdxReversed(mask, i) ==
    LET kept == {k \in i..Len(mask) : mask[k]}
    IN [n \in 1..Cardinality(kept) |->
           CHOOSE k \in kept : Cardinality({j \in kept : j > k}) = n - 1]

(* the row numbers that a boolean mask selects *)
RECURSIVE SelectIdx(_, _)
SelectIdx(mask, i) ==
    IF i > Len(mask) THEN << >>
    ELSE IF mask[i] THEN <<i>> \o SelectIdx(mask, i + 1)
    ELSE SelectIdx(mask, i + 1)

AddCols(row, newcols) == newcols @@ row

RECURSIVE Unique(_)
Unique(s) ==
    IF s = << >> THEN << >>
    ELSE LET h == Head(s)
             t == Unique(Tail(s))
         IN <<h>> \o SelectSeq(t, LAMBDA x : x # h)

RECURSIVE SeqMin(_)
SeqMin(s) ==
    IF Len(s) = 1 THEN s[1]
    ELSE LET m == SeqMin(Tail(s)) IN IF s[1] <= m THEN s[1] ELSE m

RECURSIVE SeqMax(_)
SeqMax(s) ==
    IF Len(s) = 1 THEN s[1]
    ELSE LET m == SeqMax(Tail(s)) IN IF s[1] >= m THEN s[1] ELSE m

Column(rows, c) == [k \in 1..Len(rows) |-> rows[k][c]]

-----------------------------------------------------------------------------
(* External collaborators *)

(* CRA.to_cra: the region that contains a point, or "Not Found" *)
to_cra(long, lat) ==
    CASE lat \in 0..2 -> "Ballard"
      [] lat \in 3..4 -> "Interbay"
      [] lat >= 7 -> "Magnolia"
      [] OTHER -> NotFound

(* geopy distance(location, coordinates).miles <= radius, on squares *)
Dist2(location, coordinates) ==
    (location[1] - coordinates[1]) * (location[1] - coordinates[1])
    + (location[2] - coordinates[2]) * (location[2] - coordinates[2])

(* mutant: the comparison is reversed *)
DistanceGeq(location, coordinates, radius) ==
    Dist2(location, coordinates) >= radius * radius

(* mutant: a business at exactly the radius is left out *)
DistanceLt(location, coordinates, radius) ==
    Dist2(location, coordinates) < radius * radius

DistanceLeq(location, coordinates, radius) ==
    Dist2(location, coordinates) <= radius * radius

(* round(x, 6): to the nearest grid value, a tie to the even multiple *)
Round(x) ==
    LET q == x \div Prec
        r == x % Prec
    IN IF 2 * r < Prec THEN q * Prec
       ELSE IF 2 * r > Prec THEN (q + 1) * Prec
       ELSE IF q % 2 = 0 THEN q * Prec ELSE (q + 1) * Prec

-----------------------------------------------------------------------------
(* radius_dollar_proportion *)

(* the loop that collects the indices of the businesses within the radius *)
RECURSIVE WithinIndices(_, _, _, _, _)
WithinIndices(location, df, radius, i, indices) ==
    IF i > Len(df) THEN indices
    ELSE LET coordinates == <<df[i].latitude, df[i].longitude>>
         IN WithinIndices(location, df, radius, i + 1,
                          IF DistanceLeq(location, coordinates, radius)
                          THEN Append(indices, i) ELSE indices)

(* mutant: the division is done without the test for an empty group *)
radius_dollar_proportion_unguarded(location, df, radius, dollar_tier) ==
    LET indices == WithinIndices(location, df, radius, 1, << >>)
        surrounding_businesses == [k \in 1..Len(indices) |-> df[indices[k]]]
        total_businesses == Len(surrounding_businesses)
    IN IF total_businesses = 0 THEN NaN
       ELSE [num |-> Len(SelectSeq(surrounding_businesses,
                                   LAMBDA b : b.price = dollar_tier)),
             den |-> total_businesses]

(* mutant: the tier test is "at least the tier" *)
radius_dollar_proportion_atleast(location, df, radius, dollar_tier) ==
    LET indices == WithinIndices(location, df, radius, 1, << >>)
    IN IF Len(indices) = 0 THEN Zero
       ELSE LET surrounding_businesses == [k \in 1..Len(indices) |-> df[indices[k]]]
                total_businesses == Len(surrounding_businesses)
            IN [num |-> Len(SelectSeq(surrounding_businesses,
                                      LAMBDA b : b.price >= dollar_tier)),
                den |-> total_businesses]

radius_dollar_proportion(location, df, radius, dollar_tier) ==
    LET indices == WithinIndices(location, df, radius, 1, << >>)
    IN IF Len(indices) = 0 THEN Zero
       ELSE LET surrounding_businesses == [k \in 1..Len(indices) |-> df[indices[k]]]
                total_businesses == Len(surrounding_businesses)
            IN [num |-> Len(SelectSeq(surrounding_businesses,
                                      LAMBDA b : b.price = dollar_tier)),
                den |-> total_businesses]

-----------------------------------------------------------------------------
(* dollar_rating: the seattle table with one tier column of one neighborhood set *)

(* mutant: the tier count is divided by the size of the whole yelp table *)
dollar_rating_all(seattle_df, yelp_df, neighborhood, dollar_tier) ==
    LET yelp_hood == SelectSeq(yelp_df, LAMBDA b : b.cra = neighborhood)
        proportion ==
            IF Len(yelp_hood) = 0 THEN Zero
            ELSE [num |-> Len(SelectSeq(yelp_hood, LAMBDA b : b.price = dollar_tier)),
                  den |-> Len(yelp_df)]
    IN [k \in 1..Len(seattle_df) |->
           IF seattle_df[k].neighborhood = neighborhood
           THEN [seattle_df[k] EXCEPT ![HoodTierCol(dollar_tier)] = proportion]
           ELSE seattle_df[k]]

dollar_rating(seattle_df, yelp_df, neighborhood, dollar_tier) ==
    LET yelp_hood == SelectSeq(yelp_df, LAMBDA b : b.cra = neighborhood)
        proportion ==
            IF Len(yelp_hood) = 0 THEN Zero
            ELSE LET num_businesses == Len(yelp_hood)
                 IN [num |-> Len(SelectSeq(yelp_hood, LAMBDA b : b.price = dollar_tier)),
                     den |-> num_businesses]
    IN [k \in 1..Len(seattle_df) |->
           IF seattle_df[k].neighborhood = neighborhood
           THEN [seattle_df[k] EXCEPT ![HoodTierCol(dollar_tier)] = proportion]
           ELSE seattle_df[k]]

(* for hood in hoods: for i in range(1, 5): dollar_rating(...) *)
RECURSIVE HoodsLoop(_, _, _, _)
HoodsLoop(seattle_df, yelp_df, hoods, tiers) ==
    IF hoods = << >> THEN seattle_df
    ELSE IF tiers = << >> THEN HoodsLoop(seattle_df, yelp_df, Tail(hoods), TierList)
    ELSE HoodsLoop(dollar_rating(seattle_df, yelp_df, Head(hoods), Head(tiers)),
                   yelp_df, hoods, Tail(tiers))

-----------------------------------------------------------------------------
(* The input data: the two tables as loaded and formatted *)

YelpRecord(lat, long, price) ==
    [coordinates |-> <<lat, long>>, price |-> price, cra |-> to_cra(long, lat)]

YelpRecords ==
    {YelpRecord(lat, long, price) : lat \in LatValues, long \in LonValues,
                                    price \in PriceValues}

YelpTables == UNION {[1..n -> YelpRecords] : n \in YelpSizes}

SeattleRow(k, name) ==
    [neighborhood |-> name, median_rent |-> 1000 + k,
     median_home_value |-> 2000 + k, median_income |-> 3000 + k]

SeattleTables ==
    UNION {{[k \in 1..n |-> SeattleRow(k, names[k])] : names \in [1..n -> HoodNames]}
           : n \in HoodCounts}

Init ==
    /\ pc = "remove_not_found"
    /\ yelp \in {t \in YelpTables : \E k \in 1..Len(t) : t[k].cra # NotFound}
    /\ seattle_rent \in SeattleTables
    /\ gps_dict = [latitude |-> << >>, longitude |-> << >>, neighborhood |-> << >>]
    /\ gps_df = [columns |-> << >>, rows |-> << >>]
    /\ i_loop = 0
    /\ calls = {}
    /\ test_out = Zero
    /\ output = NotWritten
    /\ error = NoError

(* Input of the run on one group: up to MaxGroup businesses at one place   *)
(* of Ballard, listed by price, and a demographics table with Ballard and  *)
(* Interbay, which has no business                                         *)
GroupTables ==
    {t \in UNION {[1..n -> {YelpRecord(0, 0, price) : price \in PriceValues}]
                    : n \in 1..MaxGroup}
        : \A k \in 1..(Len(t) - 1) : t[k].price <= t[k + 1].price}

InitGroup ==
    /\ pc = "remove_not_found"
    /\ yelp \in GroupTables
    /\ seattle_rent = <<SeattleRow(1, "Ballard"), SeattleRow(2, "Interbay")>>
    /\ gps_dict = [latitude |-> << >>, longitude |-> << >>, neighborhood |-> << >>]
    /\ gps_df = [columns |-> << >>, rows |-> << >>]
    /\ i_loop = 0
    /\ calls = {}
    /\ test_out = Zero
    /\ output = NotWritten
    /\ error = NoError

(* Input of the run that fills the cells in any order: two businesses of   *)
(* Ballard and one outside every region, with prices that tell the points  *)
(* apart                                                                   *)
OrderPrices == 1..2

OrderTables ==
    {<<YelpRecord(0, 0, p), YelpRecord(2, 0, 2), YelpRecord(5, 0, 1)>>
        : p \in OrderPrices}

InitOrder ==
    /\ pc = "remove_not_found"
    /\ yelp \in OrderTables
    /\ seattle_rent = <<SeattleRow(1, "Ballard"), SeattleRow(2, "Interbay"),
                        SeattleRow(3, "Magnolia")>>
    /\ gps_dict = [latitude |-> << >>, longitude |-> << >>, neighborhood |-> << >>]
    /\ gps_df = [columns |-> << >>, rows |-> << >>]
    /\ i_loop = 0
    /\ calls = {}
    /\ test_out = Zero
    /\ output = NotWritten
    /\ error = NoError

-----------------------------------------------------------------------------
(* The cells before the sampling *)

(* yelp = yelp[yelp["cra"] != "Not Found"].copy(); yelp.reset_index(inplace = True) *)
RemoveNotFound ==
    /\ pc = "remove_not_found"
    /\ LET kept == SelectIdx([k \in 1..Len(yelp) |-> yelp[k].cra # NotFound], 1)
       IN yelp' = [k \in 1..Len(kept) |->
                      AddCols(yelp[kept[k]], [index |-> kept[k] - 1])]
    /\ pc' = "add_hood_columns"
    /\ UNCHANGED <<seattle_rent, gps_dict, gps_df, i_loop, calls, test_out, output, error>>

(* seattle_rent[f"{i} dollar"] = filler, for i in range(1, 5) *)
AddHoodColumns ==
    /\ pc = "add_hood_columns"
    /\ seattle_rent' = [k \in 1..Len(seattle_rent) |->
                           AddCols(seattle_rent[k], [c \in {HoodTierCol(t) : t \in Tiers} |-> Zero])]
    /\ pc' = "iterate_hoods"
    /\ UNCHANGED <<yelp, gps_dict, gps_df, i_loop, calls, test_out, output, error>>

IterateHoods ==
    /\ pc = "iterate_hoods"
    /\ LET hoods == Unique(Column(seattle_rent, "neighborhood"))
       IN seattle_rent' = HoodsLoop(seattle_rent, yelp, hoods, TierList)
    /\ pc' = "add_latlon_columns"
    /\ UNCHANGED <<yelp, gps_dict, gps_df, i_loop, calls, test_out, output, error>>

(* yelp["latitude"] = filler; yelp["longitude"] = filler *)
AddLatLonColumns ==
    /\ pc = "add_latlon_columns"
    /\ yelp' = [k \in 1..Len(yelp) |-> AddCols(yelp[k], [latitude |-> 0, longitude |-> 0])]
    /\ pc' = "separate_coordinates"
    /\ UNCHANGED <<seattle_rent, gps_dict, gps_df, i_loop, calls, test_out, output, error>>

(* separate_coordinates(yelp) and the casts to float *)
separate_coordinates(yelp_df) ==
    [k \in 1..Len(yelp_df) |->
        [yelp_df[k] EXCEPT !.latitude = yelp_df[k].coordinates[1],
                           !.longitude = yelp_df[k].coordinates[2]]]

SeparateCoordinates ==
    /\ pc = "separate_coordinates"
    /\ yelp' = separate_coordinates(yelp)
    /\ pc' = "generate_gps"
    /\ UNCHANGED <<seattle_rent, gps_dict, gps_df, i_loop, calls, test_out, output, error>>

-----------------------------------------------------------------------------
(* Sampling *)

(* one iteration of "for i in range(1300)": random.uniform draws x and y *)
GenerateGps ==
    /\ pc = "generate_gps"
    /\ i_loop < NumSamples
    /\ \E x \in SeqMin(Column(yelp, "latitude"))..SeqMax(Column(yelp, "latitude")),
          y \in SeqMin(Column(yelp, "longitude"))..SeqMax(Column(yelp, "longitude")) :
          LET lat == Round(x)
              long == Round(y)
              n == to_cra(long, lat)
          IN gps_dict' = [latitude |-> Append(gps_dict.latitude, lat),
                          longitude |-> Append(gps_dict.longitude, long),
                          neighborhood |-> Append(gps_dict.neighborhood, n)]
    /\ i_loop' = i_loop + 1
    /\ pc' = IF i_loop + 1 = NumSamples THEN "create_gps_df" ELSE pc
    /\ UNCHANGED <<yelp, seattle_rent, gps_df, calls, test_out, output, error>>

(* mutant: the frame is not filtered *)
KeepEveryRow(row) == TRUE

(* the rows that gps_df[gps_df["neighborhood"] != "Not Found"] keeps *)
KeepRow(row) == row.neighborhood # NotFound

(* pd.DataFrame(gps_dict), the filter, and reset_index(inplace = True) *)
CreateGpsDf ==
    /\ pc = "create_gps_df"
    /\ LET frame == [k \in 1..Len(gps_dict.latitude) |->
                        [latitude |-> gps_dict.latitude[k],
                         longitude |-> gps_dict.longitude[k],
                         neighborhood |-> gps_dict.neighborhood[k]]]
           kept == SelectIdx([k \in 1..Len(frame) |-> KeepRow(frame[k])], 1)
       IN gps_df' = [columns |-> <<"index", "latitude", "longitude", "neighborhood">>,
                     rows |-> [k \in 1..Len(kept) |->
                                  AddCols(frame[kept[k]], [index |-> kept[k] - 1])]]
    /\ pc' = "create_tier_columns"
    /\ i_loop' = 0
    /\ UNCHANGED <<yelp, seattle_rent, gps_dict, calls, test_out, output, error>>

(* the names of the columns that the cell adds, in the order it adds them *)
RECURSIVE TierColumns(_)
TierColumns(tiers) ==
    IF tiers = << >> THEN << >>
    ELSE <<TierCol(Radii[1], Head(tiers)), TierCol(Radii[2], Head(tiers))>>
         \o TierColumns(Tail(tiers))

SeqToSet(s) == {s[k] : k \in 1..Len(s)}

AddFrameCols(df, names, value) ==
    [columns |-> df.columns \o names,
     rows |-> [k \in 1..Len(df.rows) |->
                  AddCols(df.rows[k], [c \in SeqToSet(names) |-> value])]]

CreateTierColumns ==
    /\ pc = "create_tier_columns"
    /\ gps_df' = AddFrameCols(gps_df, TierColumns(TierList), Zero)
    /\ pc' = "test_field"
    /\ UNCHANGED <<yelp, seattle_rent, gps_dict, i_loop, calls, test_out, output, error>>

(* radius_dollar_proportion(house2, yelp, 0.5, 2) *)
TestField ==
    /\ pc = "test_field"
    /\ test_out' = radius_dollar_proportion(house2, yelp, Radii[1], 2)
    /\ pc' = "populate_metrics"
    /\ UNCHANGED <<yelp, seattle_rent, gps_dict, gps_df, i_loop, calls, output, error>>

-----------------------------------------------------------------------------
(* The yelp metrics of every retained point *)

Location(row) == <<row.latitude, row.longitude>>

(* the eight cells of row i: for dollar in range(1, 5): for radius in [0.5, 1.0] *)
MetricsOfRow(row, df) ==
    [c \in DOMAIN row |->
        IF \E dollar \in Tiers, k \in 1..Len(Radii) : c = TierCol(Radii[k], dollar)
        THEN LET dollar == CHOOSE t \in Tiers :
                               \E k \in 1..Len(Radii) : c = TierCol(Radii[k], t)
                 radius == Radii[CHOOSE k \in 1..Len(Radii) : c = TierCol(Radii[k], dollar)]
             IN radius_dollar_proportion(Location(row), df, radius, dollar)
        ELSE row[c]]

CallsOfRow(i, row, df) ==
    {[i |-> i, location |-> Location(row), radius |-> Radii[k], dollar |-> dollar,
      indices |-> WithinIndices(Location(row), df, Radii[k], 1, << >>)]
        : k \in 1..Len(Radii), dollar \in Tiers}

PopulateMetrics ==
    /\ pc = "populate_metrics"
    /\ i_loop < Len(gps_df.rows)
    /\ LET i == i_loop + 1
       IN /\ gps_df' = [gps_df EXCEPT !.rows[i] = MetricsOfRow(gps_df.rows[i], yelp)]
          /\ calls' = calls \cup CallsOfRow(i, gps_df.rows[i], yelp)
    /\ i_loop' = i_loop + 1
    /\ UNCHANGED <<pc, yelp, seattle_rent, gps_dict, test_out, output, error>>

PopulateMetricsEnd ==
    /\ pc = "populate_metrics"
    /\ i_loop = Len(gps_df.rows)
    /\ pc' = "add_demographics_columns"
    /\ i_loop' = 0
    /\ UNCHANGED <<yelp, seattle_rent, gps_dict, gps_df, calls, test_out, output, error>>

(* The same cell, filled for the (point, radius, tier) combinations in any *)
(* order                                                                   *)

(* the call for row i, this radius and this tier has been made *)
Done(i, radius, dollar) ==
    \E c \in calls : c.i = i /\ c.radius = radius /\ c.dollar = dollar

Started(i) == \E c \in calls : c.i = i

Finished(i) == \A k \in 1..Len(Radii), dollar \in Tiers : Done(i, Radii[k], dollar)

(* mutant: the assignment fills the column of every row *)
SetColumn(df, i, column, value) ==
    [df EXCEPT !.rows = [j \in 1..Len(df.rows) |-> [df.rows[j] EXCEPT ![column] = value]]]

(* gps_df.loc[i, [column]] = value *)
SetCell(df, i, column, value) == [df EXCEPT !.rows[i][column] = value]

(* one pass of the body of the loop, for any cell that is still to fill *)
PopulateCell ==
    /\ pc = "populate_metrics"
    /\ \E i \in 1..Len(gps_df.rows), k \in 1..Len(Radii), dollar \in Tiers :
          /\ ~Done(i, Radii[k], dollar)
          /\ LET radius == Radii[k]
                 location == Location(gps_df.rows[i])
             IN /\ gps_df' = SetCell(gps_df, i, TierCol(radius, dollar),
                                     radius_dollar_proportion(location, yelp, radius, dollar))
                /\ calls' = calls \cup
                      {[i |-> i, location |-> location, radius |-> radius,
                        dollar |-> dollar,
                        indices |-> WithinIndices(location, yelp, radius, 1, << >>)]}
    /\ UNCHANGED <<pc, yelp, seattle_rent, gps_dict, i_loop, test_out, output, error>>

PopulateCellsEnd ==
    /\ pc = "populate_metrics"
    /\ \A i \in 1..Len(gps_df.rows) : Finished(i)
    /\ pc' = "add_demographics_columns"
    /\ UNCHANGED <<yelp, seattle_rent, gps_dict, gps_df, i_loop, calls, test_out,
                   output, error>>

-----------------------------------------------------------------------------
(* The demographics of every retained point *)

DemographicsColumns == <<"median income", "median rent", "median home value">>

AddDemographicsColumns ==
    /\ pc = "add_demographics_columns"
    /\ gps_df' = AddFrameCols(gps_df, DemographicsColumns, 0)
    /\ pc' = "populate_demographics"
    /\ UNCHANGED <<yelp, seattle_rent, gps_dict, i_loop, calls, test_out, output, error>>

(* mutant: a neighborhood without a row is given the value 0 *)
LookupDefault(seattle_df, neighborhood, column) ==
    LET series == Column(SelectSeq(seattle_df, LAMBDA r : r.neighborhood = neighborhood),
                         column)
    IN IF series = << >> THEN <<0>> ELSE series

(* mutant: the first row of the table is taken, whatever its neighborhood *)
LookupFirstRow(seattle_df, neighborhood, column) ==
    IF seattle_df = << >> THEN << >> ELSE <<seattle_df[1][column]>>

(* seattle_rent[seattle_rent["neighborhood"] == neighborhood][column] *)
Lookup(seattle_df, neighborhood, column) ==
    Column(SelectSeq(seattle_df, LAMBDA r : r.neighborhood = neighborhood), column)

(* Series.item(): the one value of a series of length 1, a ValueError otherwise *)
ItemRaises(series) == Len(series) # 1

Item(series) == series[1]

PopulateDemographics ==
    /\ pc = "populate_demographics"
    /\ i_loop < Len(gps_df.rows)
    /\ LET i == i_loop + 1
           neighborhood == gps_df.rows[i].neighborhood
           income == Lookup(seattle_rent, neighborhood, "median_income")
           rent == Lookup(seattle_rent, neighborhood, "median_rent")
           home == Lookup(seattle_rent, neighborhood, "median_home_value")
       IN IF ItemRaises(income) \/ ItemRaises(rent) \/ ItemRaises(home)
          THEN /\ pc' = "error"
               /\ error' = "ValueError"
               /\ UNCHANGED <<gps_df, i_loop>>
          ELSE /\ gps_df' = [gps_df EXCEPT
                                !.rows[i]["median income"] = Item(income),
                                !.rows[i]["median rent"] = Item(rent),
                                !.rows[i]["median home value"] = Item(home)]
               /\ i_loop' = i_loop + 1
               /\ UNCHANGED <<pc, error>>
    /\ UNCHANGED <<yelp, seattle_rent, gps_dict, calls, test_out, output>>

PopulateDemographicsEnd ==
    /\ pc = "populate_demographics"
    /\ i_loop = Len(gps_df.rows)
    /\ pc' = "to_csv"
    /\ UNCHANGED <<yelp, seattle_rent, gps_dict, gps_df, i_loop, calls, test_out, output, error>>

(* gps_df.to_csv(..., index = False): every column, without the row labels *)
ToCsv ==
    /\ pc = "to_csv"
    /\ output' = [written |-> TRUE, columns |-> gps_df.columns, rows |-> gps_df.rows]
    /\ pc' = "done"
    /\ UNCHANGED <<yelp, seattle_rent, gps_dict, gps_df, i_loop, calls, test_out, error>>

Next ==
    \/ RemoveNotFound
    \/ AddHoodColumns
    \/ IterateHoods
    \/ AddLatLonColumns
    \/ SeparateCoordinates
    \/ GenerateGps
    \/ CreateGpsDf
    \/ CreateTierColumns
    \/ TestField
    \/ PopulateMetrics
    \/ PopulateMetricsEnd
    \/ AddDemographicsColumns
    \/ PopulateDemographics
    \/ PopulateDemographicsEnd
    \/ ToCsv

Spec == Init /\ [][Next]_vars

SpecGroup == InitGroup /\ [][Next]_vars

(* the run with the cells of the yelp metrics filled in any order *)
NextAnyOrder ==
    \/ RemoveNotFound
    \/ AddHoodColumns
    \/ IterateHoods
    \/ AddLatLonColumns
    \/ SeparateCoordinates
    \/ GenerateGps
    \/ CreateGpsDf
    \/ CreateTierColumns
    \/ TestField
    \/ PopulateCell
    \/ PopulateCellsEnd
    \/ AddDemographicsColumns
    \/ PopulateDemographics
    \/ PopulateDemographicsEnd
    \/ ToCsv

SpecAnyOrder == InitOrder /\ [][NextAnyOrder]_vars

-----------------------------------------------------------------------------
(* The floats that the code stores.  A proportion is computed by Python's  *)
(* true division of two counts: the IEEE-754 double nearest to num / den.  *)
(* A positive double is [bits, e]: MantissaBits bits, the first of them 1, *)
(* read as a binary number, times 2^e.  Zero has no bits.                  *)

MantissaBits == 53

FloatZero == [bits |-> << >>, e |-> 0]

Zeros(n) == [k \in 1..n |-> 0]

Ones(n) == [k \in 1..n |-> 1]

FloatOne == [bits |-> <<1>> \o Zeros(MantissaBits - 1), e |-> 1 - MantissaBits]

(* count more bits of the binary expansion of r / n, and the remainder left *)
RECURSIVE DivBits(_, _, _)
DivBits(r, n, count) ==
    IF count = 0 THEN [bits |-> << >>, rem |-> r]
    ELSE IF count = 1
    THEN LET bit == IF 2 * r >= n THEN 1 ELSE 0
         IN [bits |-> <<bit>>, rem |-> 2 * r - bit * n]
    ELSE LET first == DivBits(r, n, count \div 2)
             rest == DivBits(first.rem, n, count - count \div 2)
         IN [bits |-> first.bits \o rest.bits, rem |-> rest.rem]

(* a binary number plus one *)
Incr(bits) ==
    LET zeros == {k \in 1..Len(bits) : bits[k] = 0}
    IN IF zeros = {} THEN <<1>> \o Zeros(Len(bits))
       ELSE LET last == CHOOSE k \in zeros : \A z \in zeros : z <= k
            IN [k \in 1..Len(bits) |->
                   IF k < last THEN bits[k] ELSE IF k = last THEN 1 ELSE 0]

(* the carry into position k of the sum of two binary numbers of one length *)
CarryInto(a, b, k) ==
    \E j \in (k + 1)..Len(a) :
       /\ a[j] = 1
       /\ b[j] = 1
       /\ \A i \in (k + 1)..(j - 1) : a[i] + b[i] = 1

(* the sum of two binary numbers of the same length *)
AddBits(a, b) ==
    LET low == [k \in 1..Len(a) |->
                   (a[k] + b[k] + (IF CarryInto(a, b, k) THEN 1 ELSE 0)) % 2]
    IN IF CarryInto(a, b, 0) THEN <<1>> \o low ELSE low

(* bits * 2^e rounded to MantissaBits bits, a tie to the even mantissa; up  *)
(* says that the part of the value below the last of bits is above a half,  *)
(* tie that it is exactly a half, of the unit of the bit after MantissaBits *)
RoundBits(bits, e, up, tie) ==
    LET kept == SubSeq(bits, 1, MantissaBits)
        raise == up \/ (tie /\ kept[MantissaBits] = 1)
        mant == IF raise THEN Incr(kept) ELSE kept
        e1 == e + (Len(bits) - MantissaBits)
    IN IF Len(mant) > MantissaBits
       THEN [bits |-> SubSeq(mant, 1, MantissaBits), e |-> e1 + 1]
       ELSE [bits |-> mant, e |-> e1]

(* the least j with num * 2^j >= den *)
RECURSIVE Shift(_, _)
Shift(num, den) == IF num >= den THEN 0 ELSE 1 + Shift(2 * num, den)

RECURSIVE Pow2(_)
Pow2(j) == IF j = 0 THEN 1 ELSE 2 * Pow2(j - 1)

(* num / den as a double, for 0 <= num <= den and den > 0 *)
FloatDiv(num, den) ==
    IF num = 0 THEN FloatZero
    ELSE LET j == Shift(num, den)
             d == DivBits(num * Pow2(j) - den, den, MantissaBits - 1)
         IN RoundBits(<<1>> \o d.bits, 1 - MantissaBits - j,
                      2 * d.rem > den, 2 * d.rem = den)

(* x + y as a double *)
FloatAdd(x, y) ==
    IF x.bits = << >> THEN y
    ELSE IF y.bits = << >> THEN x
    ELSE LET hi == IF x.e >= y.e THEN x ELSE y
             lo == IF x.e >= y.e THEN y ELSE x
             d == hi.e - lo.e
             sum == AddBits(hi.bits \o Zeros(d), Zeros(d) \o lo.bits)
             dropped == SubSeq(sum, MantissaBits + 1, Len(sum))
             half == dropped # << >> /\ dropped[1] = 1
             more == \E k \in 2..Len(dropped) : dropped[k] = 1
         IN RoundBits(sum, lo.e, half /\ more, half /\ ~more)

(* the float that a proportion cell holds *)
Float(proportion) == FloatDiv(proportion.num, proportion.den)

-----------------------------------------------------------------------------
(* Vocabulary of the properties *)

ProbeLats == 0..9

ProbeRadii == 0..4

Centers == {<<lat, long>> : lat \in ProbeLats, long \in LonValues}

(* yelp is cleaned and formatted, and stays as it is from here on *)
YelpReady == pc = "generate_gps" /\ i_loop = 0

(* the loop over the neighborhoods has run *)
HoodsDone == pc \notin {"remove_not_found", "add_hood_columns", "iterate_hoods"}

AfterMetrics ==
    pc \in {"add_demographics_columns", "populate_demographics", "to_csv", "done", "error"}

(* the rows of gps_df whose yelp metrics are written *)
PopulatedRows ==
    IF pc = "populate_metrics" THEN 1..i_loop
    ELSE IF AfterMetrics THEN 1..Len(gps_df.rows)
    ELSE {}

Coordinates(b) == <<b.latitude, b.longitude>>

(* the businesses of df at most radius away from location *)
Within(location, df, radius) ==
    {k \in 1..Len(df) : Dist2(location, Coordinates(df[k])) <= radius * radius}

WithinOfTier(location, df, radius, t) ==
    {k \in Within(location, df, radius) : df[k].price = t}

Counts(n, d) == [num |-> n, den |-> d]

-----------------------------------------------------------------------------
(* C1: radius_dollar_proportion returns the number of businesses at most   *)
(* radius away with the given tier divided by the number of businesses at  *)
(* most radius away, when there is one; a business at exactly the radius   *)
(* counts, a business farther away does not.  The same holds of every      *)
(* metric cell written into gps_df.                                        *)
C1_RadiusProportion ==
    /\ YelpReady =>
          \A center \in Centers, r \in ProbeRadii, t \in Tiers :
             Within(center, yelp, r) # {} =>
                radius_dollar_proportion(center, yelp, r, t)
                   = Counts(Cardinality(WithinOfTier(center, yelp, r, t)),
                            Cardinality(Within(center, yelp, r)))
    /\ \A i \in PopulatedRows, k \in 1..Len(Radii) :
          LET W == Within(Location(gps_df.rows[i]), yelp, Radii[k])
          IN W # {} =>
                \A t \in Tiers :
                   gps_df.rows[i][TierCol(Radii[k], t)]
                      = Counts(Cardinality({b \in W : yelp[b].price = t}),
                               Cardinality(W))

(* a written cell whose group is one business at exactly the radius, while *)
(* a business of the same tier lies farther away and is not counted        *)
C1_Witness ==
    \E i \in PopulatedRows, k \in 1..Len(Radii), t \in Tiers :
       LET loc == Location(gps_df.rows[i])
           W == Within(loc, yelp, Radii[k])
       IN /\ \E a \in W : /\ Dist2(loc, Coordinates(yelp[a])) = Radii[k] * Radii[k]
                          /\ yelp[a].price = t
          /\ \E b \in 1..Len(yelp) : b \notin W /\ yelp[b].price = t
          /\ gps_df.rows[i][TierCol(Radii[k], t)] = Counts(1, 1)

-----------------------------------------------------------------------------
(* C2: the proportion of an empty group is 0, never an undefined value:    *)
(* radius_dollar_proportion returns 0 when no business is within the       *)
(* radius, and every tier column of a neighborhood without businesses is 0 *)
C2_EmptyGroupIsZero ==
    /\ YelpReady =>
          \A center \in Centers, r \in ProbeRadii, t \in Tiers :
             Within(center, yelp, r) = {} =>
                radius_dollar_proportion(center, yelp, r, t) = Zero
    /\ \A i \in PopulatedRows, k \in 1..Len(Radii) :
          Within(Location(gps_df.rows[i]), yelp, Radii[k]) = {} =>
             \A t \in Tiers : gps_df.rows[i][TierCol(Radii[k], t)] = Zero
    /\ HoodsDone =>
          \A k \in 1..Len(seattle_rent), t \in Tiers :
             (\A b \in 1..Len(yelp) : yelp[b].cra # seattle_rent[k].neighborhood) =>
                seattle_rent[k][HoodTierCol(t)] = Zero

(* the output is written with a point that has no business within either  *)
(* radius, and a neighborhood of the demographics table has no business    *)
C2_Witness ==
    /\ output.written
    /\ \E i \in 1..Len(output.rows) :
          /\ Within(Location(output.rows[i]), yelp, Radii[2]) = {}
          /\ \A t \in Tiers : output.rows[i][TierCol(Radii[2], t)] = Zero
    /\ \E k \in 1..Len(seattle_rent) :
          /\ \A b \in 1..Len(yelp) : yelp[b].cra # seattle_rent[k].neighborhood
          /\ \A t \in Tiers : seattle_rent[k][HoodTierCol(t)] = Zero

-----------------------------------------------------------------------------
(* the rows of the demographics table of a neighborhood *)
Matches(name) ==
    {k \in 1..Len(seattle_rent) : seattle_rent[k].neighborhood = name}

JoinDone == pc \in {"to_csv", "done"}

(* the rows of gps_df whose demographics are written *)
JoinedRows ==
    IF pc \in {"populate_demographics", "error"} THEN 1..i_loop
    ELSE IF JoinDone THEN 1..Len(gps_df.rows)
    ELSE {}

(* C3: a retained point whose neighborhood has no row in the demographics  *)
(* table makes the run end with an error: the join never gets past it, no  *)
(* output is written after the error, and no emitted row belongs to such a *)
(* neighborhood or carries the placeholder 0 as a median                   *)
C3_MissingRegionRaises ==
    /\ \A i \in JoinedRows : Matches(gps_df.rows[i].neighborhood) # {}
    /\ pc = "error" => error = "ValueError" /\ ~output.written
    /\ output.written =>
          \A i \in 1..Len(output.rows) :
             /\ Matches(output.rows[i].neighborhood) # {}
             /\ output.rows[i]["median income"] # 0
             /\ output.rows[i]["median rent"] # 0
             /\ output.rows[i]["median home value"] # 0

(* the run has ended with an error at a point whose neighborhood has no row *)
C3_Witness ==
    /\ pc = "error"
    /\ error = "ValueError"
    /\ i_loop < Len(gps_df.rows)
    /\ Matches(gps_df.rows[i_loop + 1].neighborhood) = {}
    /\ gps_df.rows[i_loop + 1]["median income"] = 0
    /\ ~output.written

-----------------------------------------------------------------------------
(* the sampled points that to_cra did not find *)
NotFoundSamples ==
    {k \in 1..Len(gps_dict.neighborhood) : gps_dict.neighborhood[k] = NotFound}

(* C4: a sampled point without a neighborhood is dropped before the yelp   *)
(* metrics are computed: radius_dollar_proportion is never called for it,  *)
(* and no row of gps_df from then on, nor of the output, is "Not Found"    *)
C4_NotFoundDiscardedFirst ==
    /\ \A c \in calls, k \in NotFoundSamples :
          c.location # <<gps_dict.latitude[k], gps_dict.longitude[k]>>
    /\ (calls # {} \/ pc = "populate_metrics" \/ AfterMetrics) =>
          \A i \in 1..Len(gps_df.rows) : gps_df.rows[i].neighborhood # NotFound
    /\ output.written =>
          \A i \in 1..Len(output.rows) : output.rows[i].neighborhood # NotFound

(* the output is written, metrics were computed, a sampled point was dropped *)
C4_Witness ==
    /\ output.written
    /\ calls # {}
    /\ NotFoundSamples # {}
    /\ Len(output.rows) < Len(gps_dict.neighborhood)

-----------------------------------------------------------------------------
ExpectedColumns ==
    {"latitude", "longitude", "neighborhood",
     "0.5mi 1 dollar", "0.5mi 2 dollar", "0.5mi 3 dollar", "0.5mi 4 dollar",
     "1.0mi 1 dollar", "1.0mi 2 dollar", "1.0mi 3 dollar", "1.0mi 4 dollar",
     "median income", "median rent", "median home value"}

(* C5: the emitted table has the columns latitude, longitude,              *)
(* neighborhood, the eight "{radius}mi {tier} dollar" columns, median      *)
(* income, median rent and median home value, and no other column          *)
C5_OutputColumns ==
    output.written =>
       /\ SeqToSet(output.columns) = ExpectedColumns
       /\ Len(output.columns) = Cardinality(ExpectedColumns)

-----------------------------------------------------------------------------
(* the businesses of a neighborhood *)
InHood(name) == {b \in 1..Len(yelp) : yelp[b].cra = name}

InHoodOfTier(name, t) == {b \in InHood(name) : yelp[b].price = t}

(* C6, as claimed: once the neighborhood loop has run, every neighborhood  *)
(* of the cleaned businesses has a row in the demographics table, and the  *)
(* tier columns of that row are the tier counts over the businesses of the *)
(* neighborhood divided by their number                                    *)
C6_EveryYelpRegionHasRow ==
    HoodsDone =>
       \A b \in 1..Len(yelp) :
          /\ Matches(yelp[b].cra) # {}
          /\ \A k \in Matches(yelp[b].cra), t \in Tiers :
                seattle_rent[k][HoodTierCol(t)]
                   = Counts(Cardinality(InHoodOfTier(yelp[b].cra, t)),
                            Cardinality(InHood(yelp[b].cra)))

(* C6, amended: once the neighborhood loop has run, every row of the       *)
(* demographics table has, for each tier, the tier count over the cleaned  *)
(* businesses of its neighborhood divided by their number, and 0 when the  *)
(* neighborhood has no business; the table has the rows of the             *)
(* demographics dataset and no others                                      *)
C6_HoodProportions ==
    /\ HoodsDone =>
          \A k \in 1..Len(seattle_rent), t \in Tiers :
             LET name == seattle_rent[k].neighborhood
             IN seattle_rent[k][HoodTierCol(t)]
                   = IF InHood(name) = {} THEN Zero
                     ELSE Counts(Cardinality(InHoodOfTier(name, t)),
                                 Cardinality(InHood(name)))
    /\ \A k \in 1..Len(seattle_rent) :
          /\ seattle_rent[k].neighborhood \in HoodNames
          /\ seattle_rent[k].median_rent = SeattleRow(k, "").median_rent

(* a row whose neighborhood has two businesses of different tiers *)
C6_Witness ==
    /\ HoodsDone
    /\ \E k \in 1..Len(seattle_rent), t \in Tiers :
          /\ Cardinality(InHood(seattle_rent[k].neighborhood)) = 2
          /\ seattle_rent[k][HoodTierCol(t)] = Counts(1, 2)

-----------------------------------------------------------------------------
(* the sum of the four stored proportions of a group, added in tier order *)
TierSum(cell) ==
    FloatAdd(FloatAdd(FloatAdd(Float(cell[1]), Float(cell[2])), Float(cell[3])),
             Float(cell[4]))

(* the doubles that differ from 1 by at most 2^-51 *)
NearOne ==
    {[bits |-> Ones(MantissaBits - 2) \o <<a, b>>, e |-> 0 - MantissaBits]
        : a \in {0, 1}, b \in {0, 1}}
    \cup {[bits |-> <<1>> \o Zeros(MantissaBits - 3) \o ab, e |-> 1 - MantissaBits]
             : ab \in {<<0, 0>>, <<0, 1>>, <<1, 0>>}}

(* the tier cells of row i of the output at the k-th radius *)
RadiusCells(i, k) == [t \in Tiers |-> output.rows[i][TierCol(Radii[k], t)]]

(* the tier cells of row k of the demographics table *)
HoodCells(k) == [t \in Tiers |-> seattle_rent[k][HoodTierCol(t)]]

AllInTiers(group) == \A b \in group : yelp[b].price \in Tiers

(* the neighborhood loop has just run *)
HoodsJustDone == pc = "add_latlon_columns"

(* C7, as claimed: for a group whose businesses all have a tier in 1..4,   *)
(* the four computed proportions add up to 1 when the group has a business *)
(* and to 0 when it has none                                               *)
C7_TierSumIsOne ==
    /\ output.written =>
          \A i \in 1..Len(output.rows), k \in 1..Len(Radii) :
             LET W == Within(Location(output.rows[i]), yelp, Radii[k])
             IN AllInTiers(W) =>
                   TierSum(RadiusCells(i, k)) = IF W = {} THEN FloatZero ELSE FloatOne
    /\ HoodsJustDone =>
          \A k \in 1..Len(seattle_rent) :
             LET R == InHood(seattle_rent[k].neighborhood)
             IN AllInTiers(R) =>
                   TierSum(HoodCells(k)) = IF R = {} THEN FloatZero ELSE FloatOne

(* the tier counts of the cells add up to size, each over size *)
CountsAddUp(cell, size) ==
    /\ \A t \in Tiers : cell[t].den = size
    /\ cell[1].num + cell[2].num + cell[3].num + cell[4].num = size

(* C7, amended: for such a group with a business, the four proportions are *)
(* tier counts over the size of the group and the counts add up to the     *)
(* size, so that the exact quotients add up to 1; the stored doubles,      *)
(* added in tier order, give a double within 2^-51 of 1, not always 1.     *)
(* For a group without a business the four proportions and their sum are 0 *)
C7_TierSumNearOne ==
    /\ output.written =>
          \A i \in 1..Len(output.rows), k \in 1..Len(Radii) :
             LET W == Within(Location(output.rows[i]), yelp, Radii[k])
                 cell == RadiusCells(i, k)
             IN AllInTiers(W) =>
                   IF W = {}
                   THEN (\A t \in Tiers : cell[t] = Zero) /\ TierSum(cell) = FloatZero
                   ELSE CountsAddUp(cell, Cardinality(W)) /\ TierSum(cell) \in NearOne
    /\ HoodsJustDone =>
          \A k \in 1..Len(seattle_rent) :
             LET R == InHood(seattle_rent[k].neighborhood)
                 cell == HoodCells(k)
             IN AllInTiers(R) =>
                   IF R = {}
                   THEN (\A t \in Tiers : cell[t] = Zero) /\ TierSum(cell) = FloatZero
                   ELSE CountsAddUp(cell, Cardinality(R)) /\ TierSum(cell) \in NearOne

(* the output has a point whose group of six has businesses of three tiers *)
(* and proportions that add up to a double below 1                         *)
C7_Witness ==
    /\ output.written
    /\ \E i \in 1..Len(output.rows) :
          LET W == Within(Location(output.rows[i]), yelp, Radii[1])
              cell == RadiusCells(i, 1)
          IN /\ Cardinality(W) = 6
             /\ AllInTiers(W)
             /\ Cardinality({yelp[b].price : b \in W}) = 3
             /\ CountsAddUp(cell, 6)
             /\ TierSum(cell) \in NearOne \ {FloatOne}

-----------------------------------------------------------------------------
(* C8: the businesses selected at a radius are among those selected at any *)
(* larger radius; every business counted for the 0.5 mile columns of a     *)
(* point is counted for its 1.0 mile columns                               *)
C8_RadiusMonotone ==
    /\ YelpReady =>
          \A center \in Centers, r \in ProbeRadii, r2 \in ProbeRadii :
             r <= r2 =>
                SeqToSet(WithinIndices(center, yelp, r, 1, << >>))
                   \subseteq SeqToSet(WithinIndices(center, yelp, r2, 1, << >>))
    /\ \A c \in calls :
          c.radius = Radii[1] =>
             \A c2 \in calls :
                (c2.i = c.i /\ c2.radius = Radii[2]) =>
                   SeqToSet(c.indices) \subseteq SeqToSet(c2.indices)

(* a point with a business within 0.5 miles and one more within 1.0 miles *)
C8_Witness ==
    \E c \in calls, c2 \in calls :
       /\ c.i = c2.i
       /\ c.radius = Radii[1]
       /\ c2.radius = Radii[2]
       /\ c.indices # << >>
       /\ Len(c.indices) < Len(c2.indices)

-----------------------------------------------------------------------------
(* C9: when a business has a price outside 1..4, no output is written and  *)
(* the business is never counted in the denominator of a proportion        *)
C9_OutOfRangeTierFailsFast ==
    (\E b \in 1..Len(yelp) : yelp[b].price \notin Tiers) =>
       /\ ~output.written
       /\ \A c \in calls : \A j \in SeqToSet(c.indices) : yelp[j].price \in Tiers

-----------------------------------------------------------------------------
(* C10: when the join is complete, the medians of every row are those of   *)
(* the one row of the demographics table that has its neighborhood         *)
C10_JoinedMedians ==
    /\ \A i \in JoinedRows :
          LET row == gps_df.rows[i]
          IN /\ Cardinality(Matches(row.neighborhood)) = 1
             /\ \A k \in Matches(row.neighborhood) :
                   /\ row["median income"] = seattle_rent[k].median_income
                   /\ row["median rent"] = seattle_rent[k].median_rent
                   /\ row["median home value"] = seattle_rent[k].median_home_value
    /\ output.written =>
          \A i \in 1..Len(output.rows) :
             LET row == output.rows[i]
             IN /\ Cardinality(Matches(row.neighborhood)) = 1
                /\ \A k \in Matches(row.neighborhood) :
                      /\ row["median income"] = seattle_rent[k].median_income
                      /\ row["median rent"] = seattle_rent[k].median_rent
                      /\ row["median home value"] = seattle_rent[k].median_home_value

(* the output has two rows of different neighborhoods, the second of which *)
(* belongs to the first row of the demographics table                      *)
C10_Witness ==
    /\ output.written
    /\ Len(output.rows) = 2
    /\ output.rows[1].neighborhood # output.rows[2].neighborhood
    /\ output.rows[2].neighborhood = seattle_rent[1].neighborhood
    /\ output.rows[1]["median rent"] # output.rows[2]["median rent"]

-----------------------------------------------------------------------------
(* the samples that lie in a region, in the order of the sampling *)
RetainedSamples ==
    LET kept == {k \in 1..Len(gps_dict.neighborhood) :
                    gps_dict.neighborhood[k] # NotFound}
    IN [n \in 1..Cardinality(kept) |->
           CHOOSE k \in kept : Cardinality({j \in kept : j < k}) = n - 1]

(* row i of gps_df as it is before the yelp metrics are filled *)
RowBeforeMetrics(i) ==
    LET k == RetainedSamples[i]
    IN [c \in {"index", "latitude", "longitude", "neighborhood"}
              \cup SeqToSet(TierColumns(TierList)) |->
           CASE c = "index" -> k - 1
             [] c = "latitude" -> gps_dict.latitude[k]
             [] c = "longitude" -> gps_dict.longitude[k]
             [] c = "neighborhood" -> gps_dict.neighborhood[k]
             [] OTHER -> Zero]

(* row i as the sequential loop leaves it *)
SequentialRow(i) == MetricsOfRow(RowBeforeMetrics(i), yelp)

(* the cells are being filled, in whatever order *)
FillingCells == pc = "populate_metrics"

CellsFilled == pc = "add_demographics_columns"

(* every row has the cells of the calls made so far and is otherwise as    *)
(* it was before the filling                                               *)
CellsAsCalled ==
    LET kept == RetainedSamples
    IN /\ Len(gps_df.rows) = Len(kept)
       /\ \A i \in 1..Len(gps_df.rows) :
             LET row == gps_df.rows[i]
                 location == <<gps_dict.latitude[kept[i]], gps_dict.longitude[kept[i]]>>
             IN /\ DOMAIN row = DOMAIN RowBeforeMetrics(i)
                /\ row.index = kept[i] - 1
                /\ Location(row) = location
                /\ row.neighborhood = gps_dict.neighborhood[kept[i]]
                /\ \A k \in 1..Len(Radii), dollar \in Tiers :
                      row[TierCol(Radii[k], dollar)] =
                         IF Done(i, Radii[k], dollar)
                         THEN radius_dollar_proportion(location, yelp, Radii[k], dollar)
                         ELSE Zero

(* the table is the one that the sequential loop leaves *)
SequentialTable ==
    /\ Len(gps_df.rows) = Len(RetainedSamples)
    /\ \A i \in 1..Len(gps_df.rows) : gps_df.rows[i] = SequentialRow(i)

(* C11: while the cells are filled in any order of the points and, within  *)
(* a point, any order of the radii and tiers, each call writes its own     *)
(* cell and no other, with a value that depends on the point, the          *)
(* businesses, the radius and the tier alone, so the table at the end is   *)
(* the table of the sequential loop; no step of the filling changes the    *)
(* businesses or the demographics table                                    *)
C11_AnyOrderSameTable ==
    /\ [](FillingCells => CellsAsCalled)
    /\ [](CellsFilled => SequentialTable)
    /\ [][FillingCells => (yelp' = yelp /\ seattle_rent' = seattle_rent)]_vars

(* both points are partly filled, out of the order of the sequential loop: *)
(* the first point lacks its first cell and has a later one, the second    *)
(* point has its last cell and lacks an earlier one; the two points have   *)
(* different metrics                                                       *)
C11_Witness ==
    /\ FillingCells
    /\ Len(gps_df.rows) = 2
    /\ ~Done(1, Radii[1], 1)
    /\ Done(1, Radii[2], 2)
    /\ Done(2, Radii[2], 4)
    /\ ~Done(2, Radii[1], 2)
    /\ gps_df.rows[1][TierCol(Radii[2], 2)] = SequentialRow(1)[TierCol(Radii[2], 2)]
    /\ gps_df.rows[1][TierCol(Radii[2], 2)] # Zero
    /\ gps_df.rows[2][TierCol(Radii[1], 2)] = Zero
    /\ SequentialRow(2)[TierCol(Radii[1], 2)] # Zero
    /\ SequentialRow(1)[TierCol(Radii[2], 2)] # SequentialRow(2)[TierCol(Radii[2], 2)]

-----------------------------------------------------------------------------
(* the samples drawn so far *)
Samples == 1..Len(gps_dict.latitude)

(* C12: every sampled coordinate, as rounded, lies in the bounding box of  *)
(* the cleaned businesses: its latitude between their least and greatest   *)
(* latitude and its longitude between their least and greatest longitude,  *)
(* also when these bounds are not themselves rounded values                *)
C12_RoundedSampleInBox ==
    \A k \in Samples :
       /\ SeqMin(Column(yelp, "latitude")) <= gps_dict.latitude[k]
       /\ gps_dict.latitude[k] <= SeqMax(Column(yelp, "latitude"))
       /\ SeqMin(Column(yelp, "longitude")) <= gps_dict.longitude[k]
       /\ gps_dict.longitude[k] <= SeqMax(Column(yelp, "longitude"))

-----------------------------------------------------------------------------
(* C13: the emitted table has one row for each sample that lies in a       *)
(* region and no other row, in the order of the sampling: row i has the    *)
(* coordinate and region of the i-th such sample, the yelp metrics         *)
(* computed at that coordinate and the medians of that region              *)
C13_OutputRowsAreRetainedPoints ==
    output.written =>
       /\ Len(output.rows) = Len(RetainedSamples)
       /\ \A i \in 1..Len(output.rows) :
             LET row == output.rows[i]
                 k == RetainedSamples[i]
                 location == <<gps_dict.latitude[k], gps_dict.longitude[k]>>
             IN /\ row.latitude = gps_dict.latitude[k]
                /\ row.longitude = gps_dict.longitude[k]
                /\ row.neighborhood = gps_dict.neighborhood[k]
                /\ \A r \in 1..Len(Radii), t \in Tiers :
                      row[TierCol(Radii[r], t)] =
                         radius_dollar_proportion(location, yelp, Radii[r], t)
                /\ \E m \in Matches(gps_dict.neighborhood[k]) :
                      /\ row["median income"] = seattle_rent[m].median_income
                      /\ row["median rent"] = seattle_rent[m].median_rent
                      /\ row["median home value"] = seattle_rent[m].median_home_value

(* the first sample was dropped and the second is the one row of the       *)
(* output, with a business nearby                                          *)
C13_Witness ==
    /\ output.written
    /\ Len(gps_dict.neighborhood) >= 2
    /\ gps_dict.neighborhood[1] = NotFound
    /\ Len(output.rows) >= 1
    /\ RetainedSamples[1] = 2
    /\ output.rows[1].latitude = gps_dict.latitude[2]
    /\ \E r \in 1..Len(Radii), t \in Tiers :
          output.rows[1][TierCol(Radii[r], t)].num > 0

====
